---- MODULE Spec2Model ----
(***************************************************************************)
(* A model of triagelib's TriageSession (src/triagelib/__init__.py): the   *)
(* constructor, the six public operations and the two private helpers      *)
(* _reqsend and _parse.                                                    *)
(*                                                                         *)
(* Python values are records [t, v]: t is the type tag and v the payload.  *)
(* A Python str is a sequence of tokens (a token is a short piece of text  *)
(* that the model never splits), so that concatenation, str.join and       *)
(* str.format are sequence concatenations and a URL is the token sequence  *)
(* the code assembles.                                                     *)
(***************************************************************************)
EXTENDS Integers, Sequences, FiniteSets, TLC

VARIABLES pc, self, call, ncalls, nsent, passed

vars == <<pc, self, call, ncalls, nsent, passed>>

(* ------------------------------ bounds --------------------------------- *)

\* The number of public calls made on one client.
MaxCalls == 2

\* The number of keyword arguments a caller passes to one list operation.
MaxArgs == 2

(* --------------------------- Python values ----------------------------- *)

PyNone == [t |-> "none", v |-> << >>]

PyInt(n) == [t |-> "int", v |-> n]

PyStr(s) == [t |-> "str", v |-> s]

PyList(l) == [t |-> "list", v |-> l]

PyBool(b) == [t |-> "bool", v |-> b]

\* The values a caller passes for a parameter: of every type, falsy and truthy.
GivenVals ==
  { PyInt(0), PyInt(42),
    PyStr(<< >>), PyStr(<<"a">>),
    PyList(<< >>), PyList(<<PyStr(<<"a">>), PyStr(<<"b">>)>>), PyList(<<PyInt(42)>>) }

Vals == {PyNone} \cup GivenVals

\* bool(x), as `if x` and `x and ...` evaluate it.
Truthy(x) ==
  CASE x.t = "none" -> FALSE
    [] x.t = "bool" -> x.v
    [] x.t = "int"  -> x.v # 0
    [] x.t = "str"  -> Len(x.v) > 0
    [] x.t = "list" -> Len(x.v) > 0

\* isinstance(x, T) for T in str, int, list, bool; bool is a subclass of int.
isinstance(x, T) ==
  \/ x.t = T
  \/ T = "int" /\ x.t = "bool"

Digit(d) == <<"0", "1", "2", "3", "4", "5", "6", "7", "8", "9">>[d + 1]

\* str(n) of a non-negative int: its decimal digits.
RECURSIVE str_int(_)
str_int(n) == IF n < 10 THEN <<Digit(n)>> ELSE str_int(n \div 10) \o <<Digit(n % 10)>>

\* sep.join(seq) of a sequence of strings.
RECURSIVE Join(_, _)
Join(seq, sep) ==
  IF Len(seq) = 0 THEN << >>
  ELSE IF Len(seq) = 1 THEN seq[1]
  ELSE seq[1] \o sep \o Join(Tail(seq), sep)

\* '{0}'.format(x) and str(x).
RECURSIVE format(_)
format(x) ==
  CASE x.t = "none" -> <<"None">>
    [] x.t = "bool" -> IF x.v THEN <<"True">> ELSE <<"False">>
    [] x.t = "int"  -> str_int(x.v)
    [] x.t = "str"  -> x.v
    [] x.t = "list" ->
         <<"[">> \o Join([i \in 1..Len(x.v) |->
                            IF x.v[i].t = "str" THEN <<"'">> \o x.v[i].v \o <<"'">>
                            ELSE format(x.v[i])], <<", ">>) \o <<"]">>

\* The set of the elements of a sequence.
Range(seq) == {seq[i] : i \in DOMAIN seq}

(* ------------------------- exception classes --------------------------- *)

\* Base with a bug: TriageServerError is not derived from TriageError.
Base_unrooted(c) ==
  CASE c = "TriageError"       -> "Exception"
    [] c = "TriageStateError"  -> "TriageError"
    [] c = "TriageClientError" -> "TriageError"
    [] c = "TriageAuthError"   -> "TriageClientError"
    [] c = "TriageServerError" -> "Exception"
    [] c = "TriageFailureError" -> "TriageError"
    [] c = "TypeError"         -> "Exception"
    [] c = "ValueError"        -> "Exception"
    [] c = "Exception"         -> "BaseException"
    [] OTHER                   -> "object"

\* The base class of each exception class a call can end with.
Base(c) ==
  CASE c = "TriageError"       -> "Exception"
    [] c = "TriageStateError"  -> "TriageError"
    [] c = "TriageClientError" -> "TriageError"
    [] c = "TriageAuthError"   -> "TriageClientError"
    [] c = "TriageServerError" -> "TriageError"
    [] c = "TriageFailureError" -> "TriageError"
    [] c = "TypeError"         -> "Exception"
    [] c = "ValueError"        -> "Exception"
    [] c = "Exception"         -> "BaseException"
    [] OTHER                   -> "object"

\* issubclass(c, d): what `except d` catches.
RECURSIVE issubclass(_, _)
issubclass(c, d) ==
  IF c = d THEN TRUE
  ELSE IF c \in {"object", "BaseException"} THEN FALSE
  ELSE issubclass(Base(c), d)

(* ------------------------------ json ----------------------------------- *)

JsonFail == [ok |-> FALSE, val |-> PyNone, rest |-> << >>]

\* The JSON decoder on token sequences over "[", "]", "," and "1":
\* value ::= "1" | "[" "]" | "[" value ("," value)* "]".
RECURSIVE json_value(_), json_elems(_, _)
json_value(s) ==
  IF Len(s) = 0 THEN JsonFail
  ELSE IF Head(s) = "1" THEN [ok |-> TRUE, val |-> PyInt(1), rest |-> Tail(s)]
  ELSE IF Head(s) = "[" THEN
    IF Len(s) > 1 /\ s[2] = "]"
    THEN [ok |-> TRUE, val |-> PyList(<< >>), rest |-> Tail(Tail(s))]
    ELSE json_elems(Tail(s), << >>)
  ELSE JsonFail

json_elems(s, acc) ==
  LET r == json_value(s) IN
  IF ~r.ok \/ Len(r.rest) = 0 THEN JsonFail
  ELSE IF Head(r.rest) = "]"
    THEN [ok |-> TRUE, val |-> PyList(Append(acc, r.val)), rest |-> Tail(r.rest)]
  ELSE IF Head(r.rest) = ","
    THEN json_elems(Tail(r.rest), Append(acc, r.val))
  ELSE JsonFail

\* json.loads(src): the decoded value, or ValueError when src is not one JSON text.
json_loads(src) ==
  LET r == json_value(src) IN
  IF r.ok /\ Len(r.rest) = 0 THEN [exc |-> "", res |-> r.val]
  ELSE [exc |-> "ValueError", res |-> PyNone]

(* --------------------------- the transport ----------------------------- *)

\* The status codes the server answers with: 200, other codes below 400, codes
\* of the 4xx and 5xx ranges with their lower ends, and the first code above.
Statuses == {200, 201, 302, 400, 401, 404, 500, 503, 600}

\* The bodies of a 200 response: a JSON text and a text that is not JSON.
Bodies == { <<"[", "1", ",", "1", "]">>, <<"[", "1">> }

\* The body of every other response: an error page, which is not JSON.
ErrorBody == <<"<html>">>

\* What Session.send returns: the server's status code and body.
Responses ==
  { [status_code |-> 200, content |-> b] : b \in Bodies } \cup
  { [status_code |-> s, content |-> ErrorBody] : s \in Statuses \ {200} }

(* ----------------------------- the client ------------------------------ *)

NoSelf == [constructed |-> FALSE]

\* The record of one call: its operation and arguments, the exception it ended
\* with ("" when it returned), the request it built and how often it was sent,
\* the response, whether _parse ran, and the value returned.
CallRecord(op, a, exc, sent, req, resp, parsed, retkind, retjson, retbytes) ==
  [op |-> op, args |-> a, exc |-> exc, sent |-> sent,
   method |-> req.method, url |-> req.url, headers |-> req.headers,
   status |-> resp.status_code, body |-> resp.content, parsed |-> parsed,
   retkind |-> retkind, retjson |-> retjson, retbytes |-> retbytes]

\* No request was built; no response was received.
NoRequest == [method |-> "", url |-> << >>, headers |-> << >>]

NoResponse == [status_code |-> 0, content |-> << >>]

NoCall == CallRecord("", << >>, "", 0, NoRequest, NoResponse, FALSE, "none", PyNone, << >>)

\* A call that raised exc before any request was built.
Raised(op, a, exc) ==
  CallRecord(op, a, exc, 0, NoRequest, NoResponse, FALSE, "none", PyNone, << >>)

\* Request('GET', url, headers=headers)
Request(method, url, headers) == [method |-> method, url |-> url, headers |-> headers]

apiver == <<"1.0.0">>

\* TriageSession.__init__: the new instance, or TypeError.
TriageSession(host, email, apikey, ssl, uag) ==
  IF ~isinstance(ssl, "bool") THEN [exc |-> "TypeError", obj |-> NoSelf]
  ELSE IF ~isinstance(uag, "str") THEN [exc |-> "TypeError", obj |-> NoSelf]
  ELSE [exc |-> "",
        obj |-> [constructed |-> TRUE,
                 _triagehost |-> host,
                 _usessl |-> ssl,
                 _userag |-> uag,
                 _email |-> email,
                 _apikey |-> apikey,
                 _headers |->
                   ("Accept" :> <<"application/vnd.ve.v1.0+json">>) @@
                   ("VE-API-Version" :> apiver) @@
                   ("user-agent" :> uag.v) @@
                   ("Authorization" :>
                      <<"Token token=">> \o format(email) \o <<":">> \o format(apikey))]]

\* 'http{0}://{1}'.format('s' if self._usessl else '', self._triagehost)
base_url(slf) ==
  <<"http">> \o (IF Truthy(slf._usessl) THEN <<"s">> ELSE << >>) \o <<"://">>
             \o format(slf._triagehost)

\* cred_fails with a bug: self._apikey is not checked.
cred_fails_email_only(slf) == ~isinstance(slf._email, "str")

\* The checks of self._email and self._apikey that open every public method:
\* TRUE when one of them raises TypeError.
cred_fails(slf) ==
  \/ ~isinstance(slf._email, "str")
  \/ ~isinstance(slf._apikey, "str")

\* type_fails with a bug: only the first check of the run is made.
type_fails_first(checks, a) ==
  Truthy(a[checks[1][1]]) /\ ~isinstance(a[checks[1][1]], checks[1][2])

\* A run of `if p and not isinstance(p, T): raise TypeError` statements, one per
\* <<p, T>> of checks: TRUE when one of them raises.
type_fails(checks, a) ==
  \E i \in DOMAIN checks :
    Truthy(a[checks[i][1]]) /\ ~isinstance(a[checks[i][1]], checks[i][2])

\* The parameters of plist that `if p:` lets through, in the order of plist.
present(plist, a) == SelectSeq(plist, LAMBDA e : Truthy(a[e[1]]))

\* Whether building "key=" + value raises TypeError: ",".join(x) of a list with
\* an element that is not a str, or "key=" + x of an x that is not a str.
render_fails(how, x) ==
  CASE how = "join" -> \E i \in DOMAIN x.v : x.v[i].t # "str"
    [] how = "str"  -> FALSE
    [] how = "cat"  -> x.t # "str"

\* render with a bug: the list is formatted, not joined.
render_repr(key, how, x) ==
  <<key, "=">> \o
  CASE how = "join" -> format(x)
    [] how = "str"  -> format(x)
    [] how = "cat"  -> x.v

\* "key=" + ",".join(x), "key=" + str(x), "key=" + x.
render(key, how, x) ==
  <<key, "=">> \o
  CASE how = "join" -> Join([i \in DOMAIN x.v |-> x.v[i].v], <<",">>)
    [] how = "str"  -> format(x)
    [] how = "cat"  -> x.v

\* The list params after the `if p: params.append(...)` statements of plist.
build_params(plist, a) ==
  LET ps == present(plist, a) IN
  IF \E i \in DOMAIN ps : render_fails(ps[i][2], a[ps[i][1]])
  THEN [exc |-> "TypeError", params |-> << >>]
  ELSE [exc |-> "",
        params |-> [i \in DOMAIN ps |-> render(ps[i][1], ps[i][2], a[ps[i][1]])]]

\* _reqsend with a bug: a request that the server failed is sent again.
_reqsend_retry(slf, resp) ==
  [sent |-> IF 500 <= resp.status_code /\ resp.status_code < 600 THEN 2 ELSE 1,
   exc |-> IF resp.status_code = 401 THEN "TriageAuthError"
           ELSE IF resp.status_code # 200 THEN
             IF 400 <= resp.status_code /\ resp.status_code < 500 THEN "TriageClientError"
             ELSE IF 500 <= resp.status_code /\ resp.status_code < 600 THEN "TriageServerError"
             ELSE "TriageError"
           ELSE ""]

\* _reqsend with a bug: the 4xx range is tested before 401.
_reqsend_4xx_first(slf, resp) ==
  [sent |-> 1,
   exc |-> IF resp.status_code # 200 THEN
             IF 400 <= resp.status_code /\ resp.status_code < 500 THEN "TriageClientError"
             ELSE IF resp.status_code = 401 THEN "TriageAuthError"
             ELSE IF 500 <= resp.status_code /\ resp.status_code < 600 THEN "TriageServerError"
             ELSE "TriageError"
           ELSE ""]

\* TriageSession._reqsend: sends the prepared request once and classifies the
\* status code of the response.
_reqsend(slf, resp) ==
  [sent |-> 1,
   exc |-> IF resp.status_code = 401 THEN "TriageAuthError"
           ELSE IF resp.status_code # 200 THEN
             IF 400 <= resp.status_code /\ resp.status_code < 500 THEN "TriageClientError"
             ELSE IF 500 <= resp.status_code /\ resp.status_code < 600 THEN "TriageServerError"
             ELSE "TriageError"
           ELSE ""]

\* _parse with a bug: the ValueError of json.loads is not caught.
_parse_uncaught(slf, src) == json_loads(src)

\* TriageSession._parse: json.loads(src), ValueError turned into TriageError.
_parse(slf, src) ==
  LET r == json_loads(src) IN
  IF r.exc = "ValueError" THEN [exc |-> "TriageError", res |-> PyNone]
  ELSE [exc |-> "", res |-> r.res]

\* dict.update({key: value}) on the dict d.
update(d, key, value) ==
  [h \in DOMAIN d \cup {key} |-> IF h = key THEN value ELSE d[h]]

\* copy_update with a bug: headers = self._headers, the same dict and not a
\* copy of it, so that the update is made to self._headers too.
copy_update_alias(slf, ctype) ==
  [headers |-> update(slf._headers, "Content-Type", ctype),
   _headers |-> update(slf._headers, "Content-Type", ctype)]

\* headers = self._headers.copy(); headers.update({'Content-Type': ctype}):
\* the local dict headers, and the dict self._headers after the two statements.
copy_update(slf, ctype) ==
  [headers |-> update(slf._headers, "Content-Type", ctype),
   _headers |-> slf._headers]

\* The headers of the request: the local dict.
with_content_type(slf, ctype) == copy_update(slf, ctype).headers

\* The object after the call c. No method assigns an attribute of self; the one
\* dict of self a method works on is _headers, in the two statements of
\* copy_update, which a call reaches when it builds its request.
self_after(slf, c) ==
  IF c.method = "" THEN slf
  ELSE [slf EXCEPT !._headers = copy_update(slf, c.headers["Content-Type"])._headers]

\* The tail of every JSON operation: copy the headers, send the request, parse
\* the body of the response.
send_json(slf, op, a, url, resp) ==
  LET req == Request("GET", url, with_content_type(slf, <<"application/json">>))
      sent == _reqsend(slf, resp)
  IN IF sent.exc # ""
     THEN CallRecord(op, a, sent.exc, sent.sent, req, resp, FALSE, "none", PyNone, << >>)
     ELSE LET res == _parse(slf, resp.content) IN
          IF res.exc # ""
          THEN CallRecord(op, a, res.exc, sent.sent, req, resp, TRUE, "none", PyNone, << >>)
          ELSE CallRecord(op, a, "", sent.sent, req, resp, TRUE, "json", res.res, << >>)

(* ------------------------------- reports ------------------------------- *)

\* The parameters of reports, in the order of its signature.
reports_signature ==
  <<"match_priority", "category_id", "start_date", "tags", "end_date", "page",
    "per_page", "report_id">>

reports_names == Range(reports_signature)

reports_checks ==
  << <<"tags", "list">>, <<"page", "int">>, <<"per_page", "int">>,
     <<"start_date", "str">>, <<"end_date", "str">>, <<"report_id", "int">>,
     <<"category_id", "int">>, <<"match_priority", "int">> >>

\* reports_params with a bug: the parameters are appended in the order of the
\* signature.
reports_params_declared ==
  << <<"match_priority", "str">>, <<"category_id", "str">>, <<"start_date", "cat">>,
     <<"tags", "join">>, <<"end_date", "cat">>, <<"page", "str">>,
     <<"per_page", "str">> >>

\* The `if p: params.append("p=" + ...)` statements of reports, in their order.
reports_params ==
  << <<"tags", "join">>, <<"page", "str">>, <<"per_page", "str">>,
     <<"start_date", "cat">>, <<"end_date", "cat">>,
     <<"match_priority", "str">>, <<"category_id", "str">> >>

\* reports_url with a bug: the branches are tested in the other order.
reports_url_params_first(slf, a, params) ==
  IF Len(params) > 0
  THEN base_url(slf) \o <<"/api/public/v1/reports", "?">> \o Join(params, <<"&">>)
  ELSE IF Truthy(a["report_id"])
  THEN base_url(slf) \o <<"/api/public/v1/reports/">> \o format(a["report_id"])
  ELSE base_url(slf) \o <<"/api/public/v1/reports">>

\* The URL of reports: the report's own path when report_id is given, the list
\* with its query string when there are params, the bare list otherwise.
reports_url(slf, a, params) ==
  IF Truthy(a["report_id"])
  THEN base_url(slf) \o <<"/api/public/v1/reports/">> \o format(a["report_id"])
  ELSE IF Len(params) > 0
  THEN base_url(slf) \o <<"/api/public/v1/reports", "?">> \o Join(params, <<"&">>)
  ELSE base_url(slf) \o <<"/api/public/v1/reports">>

reports(slf, a, resp) ==
  IF cred_fails(slf) \/ type_fails(reports_checks, a)
  THEN Raised("reports", a, "TypeError")
  ELSE LET b == build_params(reports_params, a) IN
       IF b.exc # "" THEN Raised("reports", a, b.exc)
       ELSE send_json(slf, "reports", a, reports_url(slf, a, b.params), resp)

(* -------------------------- processed_reports -------------------------- *)

processed_reports_signature ==
  <<"match_priority", "category_id", "start_date", "tags", "end_date", "page",
    "per_page">>

processed_reports_names == Range(processed_reports_signature)

processed_reports_checks ==
  << <<"tags", "list">>, <<"page", "int">>, <<"per_page", "int">>,
     <<"start_date", "str">>, <<"end_date", "str">>,
     <<"category_id", "int">>, <<"match_priority", "int">> >>

processed_reports_params ==
  << <<"tags", "join">>, <<"page", "str">>, <<"per_page", "str">>,
     <<"start_date", "cat">>, <<"end_date", "cat">>,
     <<"category_id", "str">>, <<"match_priority", "str">> >>

\* The URL of a list operation: the path, and '?' and the joined params when
\* params is not empty.
list_url(slf, path, params) ==
  IF Len(params) > 0
  THEN base_url(slf) \o <<path, "?">> \o Join(params, <<"&">>)
  ELSE base_url(slf) \o <<path>>

processed_reports(slf, a, resp) ==
  IF cred_fails(slf) \/ type_fails(processed_reports_checks, a)
  THEN Raised("processed_reports", a, "TypeError")
  ELSE LET b == build_params(processed_reports_params, a) IN
       IF b.exc # "" THEN Raised("processed_reports", a, b.exc)
       ELSE send_json(slf, "processed_reports", a,
                      list_url(slf, "/api/public/v1/processed_reports", b.params), resp)

(* ---------------------------- inbox_reports ---------------------------- *)

inbox_reports_signature ==
  <<"match_priority", "start_date", "end_date", "page", "per_page">>

inbox_reports_names == Range(inbox_reports_signature)

inbox_reports_checks ==
  << <<"page", "int">>, <<"per_page", "int">>, <<"start_date", "str">>,
     <<"end_date", "str">>, <<"match_priority", "int">> >>

inbox_reports_params ==
  << <<"page", "str">>, <<"per_page", "str">>, <<"start_date", "cat">>,
     <<"end_date", "cat">>, <<"match_priority", "str">> >>

inbox_reports(slf, a, resp) ==
  IF cred_fails(slf) \/ type_fails(inbox_reports_checks, a)
  THEN Raised("inbox_reports", a, "TypeError")
  ELSE LET b == build_params(inbox_reports_params, a) IN
       IF b.exc # "" THEN Raised("inbox_reports", a, b.exc)
       ELSE send_json(slf, "inbox_reports", a,
                      list_url(slf, "/api/public/v1/inbox_reports", b.params), resp)

(* ------------------------------ attachment ----------------------------- *)

attachment_signature == <<"attachment_id", "mime_type">>

attachment_names == Range(attachment_signature)

\* The two checks of attachment, which do not test the value's truth first.
attachment_fails(a) ==
  \/ ~isinstance(a["mime_type"], "str")
  \/ ~isinstance(a["attachment_id"], "int")

attachment_url(slf, a) ==
  base_url(slf) \o <<"/api/public/v1/attachment/">> \o format(a["attachment_id"])

\* attachment_headers with a bug: the Content-Type of the JSON operations.
attachment_headers_json(slf, a) == with_content_type(slf, <<"application/json">>)

\* headers = self._headers.copy(); headers.update({'Content-Type': mime_type})
attachment_headers(slf, a) == with_content_type(slf, a["mime_type"].v)

attachment(slf, a, resp) ==
  IF cred_fails(slf) \/ attachment_fails(a)
  THEN Raised("attachment", a, "TypeError")
  ELSE LET req == Request("GET", attachment_url(slf, a), attachment_headers(slf, a))
           sent == _reqsend(slf, resp)
       IN IF sent.exc # ""
          THEN CallRecord("attachment", a, sent.exc, sent.sent, req, resp,
                          FALSE, "none", PyNone, << >>)
          ELSE CallRecord("attachment", a, "", sent.sent, req, resp,
                          FALSE, "bytes", PyNone, resp.content)

(* -------------------------- integration_search ------------------------- *)

integration_search_signature == <<"sha256", "md5", "searchurl">>

integration_search_names == Range(integration_search_signature)

integration_search_params ==
  << <<"searchurl", "cat">>, <<"md5", "cat">>, <<"sha256", "cat">> >>

\* md5 is checked twice (the second time under the name of sha256) and sha256
\* never.
integration_search_checks ==
  << <<"md5", "str">>, <<"searchurl", "str">>, <<"md5", "str">> >>

\* [sha256, md5, searchurl].count(None) == 3
gave_none(a) ==
  Len(SelectSeq(<<a["sha256"], a["md5"], a["searchurl"]>>, LAMBDA x : x.t = "none")) = 3

integration_search_url(slf, params) ==
  base_url(slf) \o <<"/api/public/v1/integration_search", "?">> \o Join(params, <<"&">>)

integration_search(slf, a, resp) ==
  LET b == build_params(integration_search_params, a) IN
  IF b.exc # "" THEN Raised("integration_search", a, b.exc)
  ELSE IF cred_fails(slf) \/ type_fails(integration_search_checks, a)
  THEN Raised("integration_search", a, "TypeError")
  ELSE IF gave_none(a) THEN Raised("integration_search", a, "ValueError")
  ELSE send_json(slf, "integration_search", a, integration_search_url(slf, b.params), resp)

(* ------------------------------- clusters ------------------------------ *)

clusters_signature ==
  <<"match_priority", "start_date", "end_date", "page", "per_page", "tags">>

clusters_names == Range(clusters_signature)

clusters_checks ==
  << <<"tags", "str">>, <<"page", "int">>, <<"per_page", "int">>,
     <<"start_date", "str">>, <<"end_date", "str">>, <<"match_priority", "int">> >>

clusters_params ==
  << <<"tags", "cat">>, <<"page", "str">>, <<"per_page", "str">>,
     <<"start_date", "cat">>, <<"end_date", "cat">>, <<"match_priority", "str">> >>

clusters(slf, a, resp) ==
  IF cred_fails(slf) \/ type_fails(clusters_checks, a)
  THEN Raised("clusters", a, "TypeError")
  ELSE LET b == build_params(clusters_params, a) IN
       IF b.exc # "" THEN Raised("clusters", a, b.exc)
       ELSE send_json(slf, "clusters", a,
                      list_url(slf, "/api/public/v1/clusters", b.params), resp)

(* ------------------------------ the caller ----------------------------- *)

\* The keyword arguments of one call of a list operation: at most MaxArgs of
\* the parameters names are passed.
KwNames(names) == {S \in SUBSET names : Cardinality(S) <= MaxArgs}

\* The arguments of a call that passes f: the others keep their default None.
KwArgs(names, f) == [p \in names |-> IF p \in DOMAIN f THEN f[p] ELSE PyNone]

\* The values a caller passes for a parameter that the method checks with
\* `p and not isinstance(p, T)`: a falsy and a truthy value of the type T, and
\* a falsy and a truthy value of another type; for a list, also the two kinds
\* of truthy list.
GivenFor(T) ==
  IF T = "list"
  THEN { PyList(<< >>), PyList(<<PyStr(<<"a">>), PyStr(<<"b">>)>>), PyList(<<PyInt(42)>>),
         PyStr(<< >>), PyStr(<<"a">>) }
  ELSE { PyInt(0), PyInt(42), PyStr(<< >>), PyStr(<<"a">>) }

\* The type the checks of a method test the parameter p for.
checked_type(checks, p) ==
  checks[CHOOSE i \in DOMAIN checks : checks[i][1] = p][2]

\* The keyword arguments a caller passes for the parameters S of a method.
Given(checks, S) ==
  {f \in [S -> GivenVals] : \A p \in S : f[p] \in GivenFor(checked_type(checks, p))}

HostVals == { PyStr(<<"triage.example">>) }

\* The email and apikey of the client: both strings, or one of them not.
CredVals ==
  { <<PyStr(<<"u@x">>), PyStr(<<"k">>)>>,
    <<PyNone, PyStr(<<"k">>)>>,
    <<PyStr(<<"u@x">>), PyInt(42)>> }

SslVals == { PyBool(TRUE), PyBool(FALSE), PyInt(1) }

UagVals == { PyStr(<<"Python CoFense Triage Client">>), PyNone }

\* The caller has passed nothing to the constructor yet.
NoArgs == [host |-> PyNone, email |-> PyNone, apikey |-> PyNone, ssl |-> PyNone, uag |-> PyNone]

Init ==
  /\ pc = "new"
  /\ self = NoSelf
  /\ call = NoCall
  /\ ncalls = 0
  /\ nsent = 0
  /\ passed = NoArgs

\* The caller constructs the client.
Construct ==
  /\ pc = "new"
  /\ \E host \in HostVals, cred \in CredVals, ssl \in SslVals, uag \in UagVals :
       LET r == TriageSession(host, cred[1], cred[2], ssl, uag) IN
       /\ self' = r.obj
       /\ pc' = IF r.exc = "" THEN "idle" ELSE "failed"
       /\ passed' = [host |-> host, email |-> cred[1], apikey |-> cred[2],
                    ssl |-> ssl, uag |-> uag]
       /\ call' = Raised("__init__", passed', r.exc)
  /\ UNCHANGED <<ncalls, nsent>>

\* One public call, from its entry to its return or raise.
Finish(c) ==
  /\ call' = c
  /\ pc' = "done"
  /\ ncalls' = ncalls + 1
  /\ nsent' = nsent + call'.sent
  /\ self' = self_after(self, call')
  /\ UNCHANGED passed

CanCall == pc = "idle" /\ ncalls < MaxCalls

Call_reports ==
  /\ CanCall
  /\ \E S \in KwNames(reports_names) : \E f \in Given(reports_checks, S) :
       LET a == KwArgs(reports_names, f) IN
       LET unsent == reports(self, a, NoResponse) IN
       IF unsent.sent = 0
       THEN Finish(unsent)
       ELSE \E resp \in Responses : Finish(reports(self, a, resp))

Call_processed_reports ==
  /\ CanCall
  /\ \E S \in KwNames(processed_reports_names) : \E f \in Given(processed_reports_checks, S) :
       LET a == KwArgs(processed_reports_names, f) IN
       LET unsent == processed_reports(self, a, NoResponse) IN
       IF unsent.sent = 0
       THEN Finish(unsent)
       ELSE \E resp \in Responses : Finish(processed_reports(self, a, resp))

Call_inbox_reports ==
  /\ CanCall
  /\ \E S \in KwNames(inbox_reports_names) : \E f \in Given(inbox_reports_checks, S) :
       LET a == KwArgs(inbox_reports_names, f) IN
       LET unsent == inbox_reports(self, a, NoResponse) IN
       IF unsent.sent = 0
       THEN Finish(unsent)
       ELSE \E resp \in Responses : Finish(inbox_reports(self, a, resp))

\* attachment's two parameters are required: the caller passes a value for each.
Call_attachment ==
  /\ CanCall
  /\ \E a \in [attachment_names -> Vals] :
       LET unsent == attachment(self, a, NoResponse) IN
       IF unsent.sent = 0
       THEN Finish(unsent)
       ELSE \E resp \in Responses : Finish(attachment(self, a, resp))

\* integration_search has three parameters: the caller passes any of them.
Call_integration_search ==
  /\ CanCall
  /\ \E a \in [integration_search_names -> Vals] :
       LET unsent == integration_search(self, a, NoResponse) IN
       IF unsent.sent = 0
       THEN Finish(unsent)
       ELSE \E resp \in Responses : Finish(integration_search(self, a, resp))

Call_clusters ==
  /\ CanCall
  /\ \E S \in KwNames(clusters_names) : \E f \in Given(clusters_checks, S) :
       LET a == KwArgs(clusters_names, f) IN
       LET unsent == clusters(self, a, NoResponse) IN
       IF unsent.sent = 0
       THEN Finish(unsent)
       ELSE \E resp \in Responses : Finish(clusters(self, a, resp))

\* The caller has the outcome of the call and may call again.
Return ==
  /\ pc = "done"
  /\ pc' = "idle"
  /\ call' = NoCall
  /\ UNCHANGED <<self, ncalls, nsent, passed>>

Next ==
  \/ Construct
  \/ Call_reports
  \/ Call_processed_reports
  \/ Call_inbox_reports
  \/ Call_attachment
  \/ Call_integration_search
  \/ Call_clusters
  \/ Return

Spec == Init /\ [][Next]_vars

(* ======================================================================= *)
(*                               the claims                                *)
(* ======================================================================= *)

\* A public call has returned or raised, and the caller holds its outcome.
Done == pc = "done"

\* The call reached the transport.
Sent == Done /\ call.sent > 0

\* The names the specification gives the exception classes of the code.
InvalidArgument == {"TypeError", "ValueError"}

AuthenticationError == "TriageAuthError"

ClientError == "TriageClientError"

ServerError == "TriageServerError"

ProtocolError == "TriageError"

JsonOps == {"reports", "processed_reports", "inbox_reports", "integration_search", "clusters"}

\* The type each parameter is declared with: "int", "str", or "liststr", a
\* list of strings (the tags of reports and processed_reports; the tags of
\* clusters are one string).
DeclaredType(op, p) ==
  CASE p \in {"page", "per_page", "report_id", "category_id", "match_priority",
              "attachment_id"} -> "int"
    [] p \in {"start_date", "end_date", "mime_type", "sha256", "md5", "searchurl"} -> "str"
    [] p = "tags" -> IF op = "clusters" THEN "str" ELSE "liststr"

\* x is a value of the declared type T.
HasType(x, T) ==
  CASE T = "int" -> x.t \in {"int", "bool"}
    [] T = "str" -> x.t = "str"
    [] T = "liststr" -> x.t = "list" /\ \A i \in DOMAIN x.v : x.v[i].t = "str"

\* The scheme and host every URL of the client starts with.
ExpectedBase ==
  IF self._usessl = PyBool(TRUE)
  THEN <<"http", "s", "://">> \o self._triagehost.v
  ELSE <<"http", "://">> \o self._triagehost.v

HasQuery(url) == \E i \in DOMAIN url : url[i] = "?"

(* ------------------------------------------------------------------------ *)
\* C1 (as stated): in every public operation, a call that passes for some
\* parameter a value that is not of the declared type (any value other than
\* the default None; for attachment, whose parameters are required, any value
\* at all) fails with InvalidArgument, and sends no HTTP request.
C1_WrongTypeRejected ==
  Done =>
    ( (\E p \in DOMAIN call.args :
         /\ call.args[p].t # "none" \/ call.op = "attachment"
         /\ ~HasType(call.args[p], DeclaredType(call.op, p)))
      => call.exc \in InvalidArgument /\ call.sent = 0 )

\* C1 (amended): in every public operation, a call that passes for some
\* parameter a truthy value that is not of the declared type (for attachment,
\* any value that is not of the declared type) fails with TypeError, and sends
\* no HTTP request.
C1_TruthyWrongTypeRejected ==
  Done =>
    ( (\E p \in DOMAIN call.args :
         /\ Truthy(call.args[p]) \/ call.op = "attachment"
         /\ ~HasType(call.args[p], DeclaredType(call.op, p)))
      => call.exc = "TypeError" /\ call.sent = 0 )

\* C1's case: integration_search is called with a sha256 that is not a string,
\* the one parameter no isinstance check covers, and raises TypeError.
C1_Witness ==
  /\ Done
  /\ call.op = "integration_search"
  /\ call.args["sha256"] = PyInt(42)
  /\ call.args["md5"].t = "none"
  /\ call.args["searchurl"].t = "none"
  /\ ~cred_fails(self)
  /\ call.exc = "TypeError"
  /\ call.sent = 0

(* ------------------------------------------------------------------------ *)
\* C2: integration_search sends an HTTP request only when exactly one of
\* sha256, md5 and searchurl is given; a call that gives none, two or three of
\* them fails with InvalidArgument and sends no request. Stated of the calls
\* whose arguments are well typed: each of the three is left out or is a
\* non-empty string.
C2_ExactlyOneGiven ==
  (/\ Done
   /\ call.op = "integration_search"
   /\ \A p \in DOMAIN call.args :
        call.args[p].t = "none" \/ (call.args[p].t = "str" /\ Truthy(call.args[p]))) =>
    LET given == {p \in DOMAIN call.args : call.args[p].t # "none"} IN
    /\ call.sent > 0 => Cardinality(given) = 1
    /\ Cardinality(given) # 1 => call.exc \in InvalidArgument /\ call.sent = 0

C4_ParseAfter200 ==
  (Sent /\ call.op \in JsonOps) =>
    /\ call.parsed <=> call.status = 200
    /\ (call.status = 200 /\ call.body = <<"[", "1">>) =>
         call.exc = ProtocolError /\ call.retkind = "none"
    /\ (call.status = 200 /\ call.body = <<"[", "1", ",", "1", "]">>) =>
         /\ call.exc = ""
         /\ call.retkind = "json"
         /\ call.retjson = PyList(<<PyInt(1), PyInt(1)>>)

\* C4's case: a 200 response whose body is not JSON, parsed and refused.
C4_Witness ==
  /\ Sent
  /\ call.op = "clusters"
  /\ call.status = 200
  /\ call.body = <<"[", "1">>
  /\ call.parsed
  /\ call.exc = ProtocolError

(* ------------------------------------------------------------------------ *)
\* C5 (as stated): a request of reports called with an integer report_id has
\* the URL {scheme}://{host}/api/public/v1/reports/{report_id} and no query
\* string, whatever the other filters.
C5_ReportById ==
  (Sent /\ call.op = "reports" /\ call.args["report_id"].t = "int") =>
    /\ call.url = ExpectedBase \o <<"/api/public/v1/reports/">>
                               \o str_int(call.args["report_id"].v)
    /\ ~HasQuery(call.url)

\* C5 (amended): a request of reports called with a non-zero integer report_id
\* has the URL {scheme}://{host}/api/public/v1/reports/{report_id} and no
\* query string, whatever the other filters.
C5_ReportByNonZeroId ==
  (Sent /\ call.op = "reports" /\ call.args["report_id"].t = "int"
        /\ call.args["report_id"].v # 0) =>
    /\ call.url = ExpectedBase \o <<"/api/public/v1/reports/">>
                               \o str_int(call.args["report_id"].v)
    /\ ~HasQuery(call.url)

\* C5's case: reports is called with report_id 42 and a tags filter.
C5_Witness ==
  /\ Sent
  /\ call.op = "reports"
  /\ call.args["report_id"] = PyInt(42)
  /\ Truthy(call.args["tags"])
  /\ call.url = <<"http", "s", "://", "triage.example", "/api/public/v1/reports/", "4", "2">>

(* ------------------------------------------------------------------------ *)
\* The query string of a URL: what follows its '?'; empty when it has none.
Query(url) ==
  IF HasQuery(url)
  THEN SubSeq(url, 1 + (CHOOSE i \in DOMAIN url : url[i] = "?"), Len(url))
  ELSE << >>

\* The keys of a query string: the tokens that an '=' follows.
RECURSIVE KeysOf(_)
KeysOf(q) ==
  IF Len(q) < 2 THEN << >>
  ELSE IF q[2] = "=" THEN <<q[1]>> \o KeysOf(Tail(Tail(q)))
  ELSE KeysOf(Tail(q))

\* sub occurs in seq as a run of consecutive tokens.
Contains(seq, sub) ==
  \E i \in 0..(Len(seq) - Len(sub)) : SubSeq(seq, i + 1, i + Len(sub)) = sub

\* The parameters of an operation that go into the query string, in the order
\* of its signature.
QuerySignature(op) ==
  CASE op = "reports" -> SelectSeq(reports_signature, LAMBDA p : p # "report_id")
    [] op = "processed_reports" -> processed_reports_signature
    [] op = "inbox_reports" -> inbox_reports_signature
    [] op = "integration_search" -> integration_search_signature
    [] op = "clusters" -> clusters_signature

\* The order in which each operation appends its parameters.
AppendOrder(op) ==
  CASE op = "reports" ->
         <<"tags", "page", "per_page", "start_date", "end_date", "match_priority",
           "category_id">>
    [] op = "processed_reports" ->
         <<"tags", "page", "per_page", "start_date", "end_date", "category_id",
           "match_priority">>
    [] op = "inbox_reports" ->
         <<"page", "per_page", "start_date", "end_date", "match_priority">>
    [] op = "integration_search" -> <<"searchurl", "md5", "sha256">>
    [] op = "clusters" ->
         <<"tags", "page", "per_page", "start_date", "end_date", "match_priority">>

\* The text of a well-typed value in a query string.
ValueText(x) ==
  CASE x.t = "int" -> str_int(x.v)
    [] x.t = "str" -> x.v
    [] x.t = "list" -> Join([i \in DOMAIN x.v |-> x.v[i].v], <<",">>)

\* The call built the URL of a list request: any JSON operation, but reports
\* with a truthy report_id, which builds the URL of one report.
ListRequest ==
  /\ Sent
  /\ call.op \in JsonOps
  /\ ~(call.op = "reports" /\ Truthy(call.args["report_id"]))

\* C6 (as stated): the keys of the query string of a list request are the
\* parameters given a truthy value, in the order of the operation's signature.
C6_DeclarationOrder ==
  ListRequest =>
    KeysOf(Query(call.url)) =
      SelectSeq(QuerySignature(call.op), LAMBDA p : Truthy(call.args[p]))

\* C6 (amended): the query string of a list request is the key=value pairs of
\* the parameters given a truthy value, joined by '&', in the order in which
\* the operation appends them (AppendOrder).
C6_AppendOrder ==
  ListRequest =>
    LET ps == SelectSeq(AppendOrder(call.op), LAMBDA p : Truthy(call.args[p])) IN
    /\ KeysOf(Query(call.url)) = ps
    /\ Query(call.url) =
         Join([i \in DOMAIN ps |-> <<ps[i], "=">> \o ValueText(call.args[ps[i]])], <<"&">>)

\* C6's case: reports with page and match_priority, the first of its signature.
C6_Witness ==
  /\ ListRequest
  /\ call.op = "reports"
  /\ Query(call.url) = <<"page", "=", "4", "2", "&", "match_priority", "=", "4", "2">>

(* ------------------------------------------------------------------------ *)
\* C7 (as stated): a request of reports with no report_id, a non-empty list of
\* strings as tags and an integer page has a query string that contains
\* 'tags=' and the tags joined by ',', then '&page=' and the page.
C7_TagsThenPage ==
  (/\ Sent
   /\ call.op = "reports"
   /\ call.args["report_id"].t = "none"
   /\ HasType(call.args["tags"], "liststr") /\ Truthy(call.args["tags"])
   /\ call.args["page"].t = "int") =>
    Contains(Query(call.url),
             <<"tags", "=">> \o ValueText(call.args["tags"])
               \o <<"&", "page", "=">> \o str_int(call.args["page"].v))

\* C7 (amended): the same of a page that is not zero.
C7_TagsThenNonZeroPage ==
  (/\ Sent
   /\ call.op = "reports"
   /\ call.args["report_id"].t = "none"
   /\ HasType(call.args["tags"], "liststr") /\ Truthy(call.args["tags"])
   /\ call.args["page"].t = "int" /\ call.args["page"].v # 0) =>
    Contains(Query(call.url),
             <<"tags", "=">> \o ValueText(call.args["tags"])
               \o <<"&", "page", "=">> \o str_int(call.args["page"].v))

\* C7's case: reports(tags=["a", "b"], page=42).
C7_Witness ==
  /\ Sent
  /\ call.op = "reports"
  /\ call.args["tags"] = PyList(<<PyStr(<<"a">>), PyStr(<<"b">>)>>)
  /\ call.args["page"] = PyInt(42)
  /\ Query(call.url) = <<"tags", "=", "a", ",", "b", "&", "page", "=", "4", "2">>

(* ------------------------------------------------------------------------ *)
\* C8: in a list request the key of a parameter is in the query string exactly
\* when the parameter was given a truthy value, and then once; the URL has no
\* '?' when no parameter is truthy; and a call whose arguments are all falsy
\* raises no type error.
C8_KeysIffTruthy ==
  /\ ListRequest =>
       LET keys == KeysOf(Query(call.url)) IN
       /\ \A p \in DOMAIN call.args \ {"report_id"} :
            /\ (\E i \in DOMAIN keys : keys[i] = p) <=> Truthy(call.args[p])
            /\ Cardinality({i \in DOMAIN keys : keys[i] = p}) <= 1
       /\ (\A p \in DOMAIN call.args : ~Truthy(call.args[p])) => ~HasQuery(call.url)
  /\ (/\ Done
      /\ call.op \in JsonOps
      /\ ~cred_fails(self)
      /\ \A p \in DOMAIN call.args : ~Truthy(call.args[p])) => call.exc # "TypeError"

(* ------------------------------------------------------------------------ *)
\* C9: a public call sends no HTTP request when it ends with InvalidArgument
\* and exactly one otherwise, whatever the response; after n calls at most n
\* requests have been sent.
C9_OneRequestPerCall ==
  /\ Done => call.sent = IF call.exc \in InvalidArgument THEN 0 ELSE 1
  /\ nsent <= ncalls

\* C9's case: a call that sent nothing, then a call that the server failed.
C9_Witness ==
  /\ Done
  /\ ncalls = 2
  /\ nsent = 1
  /\ call.status = 503
  /\ call.exc = ServerError
  /\ call.sent = 1

(* ------------------------------------------------------------------------ *)
\* C10: a request of attachment is a GET of
\* {scheme}://{host}/api/public/v1/attachment/{attachment_id} whose
\* Content-Type is the mime_type of the call; its body is never parsed, and on
\* status 200 the call returns the body as it is.
C10_Attachment ==
  (Sent /\ call.op = "attachment") =>
    /\ call.method = "GET"
    /\ call.url = ExpectedBase \o <<"/api/public/v1/attachment/">>
                               \o str_int(call.args["attachment_id"].v)
    /\ call.headers["Content-Type"] = call.args["mime_type"].v
    /\ ~call.parsed
    /\ call.status = 200 =>
         call.exc = "" /\ call.retkind = "bytes" /\ call.retbytes = call.body

\* C10's case: a 200 response whose body is not JSON, returned as bytes.
C10_Witness ==
  /\ Sent
  /\ call.op = "attachment"
  /\ call.args["mime_type"] = PyStr(<<"a">>)
  /\ call.headers["Content-Type"] = <<"a">>
  /\ call.status = 200
  /\ call.body = <<"[", "1">>
  /\ call.retkind = "bytes"
  /\ call.retbytes = <<"[", "1">>

(* ------------------------------------------------------------------------ *)
\* C11 as stated: every error a public call ends with is an instance of
\* TriageError, so `except TriageError` catches every failure of every
\* operation.
C11_AllCaught ==
  (Done /\ call.exc # "") => issubclass(call.exc, "TriageError")

\* C11: an error a public call ends with after its request was sent
\* (AuthenticationError, ClientError, ServerError, ProtocolError) is an
\* instance of TriageError; an error it ends with before any request is sent
\* is the builtin TypeError or ValueError, which `except TriageError` does not
\* catch.
C11_SentErrorsCaught ==
  (Done /\ call.exc # "") =>
    /\ call.sent > 0 =>
         /\ call.exc \in {AuthenticationError, ClientError, ServerError, ProtocolError}
         /\ issubclass(call.exc, "TriageError")
    /\ call.sent = 0 =>
         /\ call.exc \in InvalidArgument
         /\ ~issubclass(call.exc, "TriageError")

\* C11's case: a 401 ends the call with TriageAuthError, which reaches
\* TriageError through TriageClientError.
C11_Witness ==
  /\ Done
  /\ call.status = 401
  /\ call.exc = AuthenticationError
  /\ Base(call.exc) = ClientError
  /\ issubclass(call.exc, "TriageError")

(* ------------------------------------------------------------------------ *)
\* C12: a public call on a client whose email or API key is not a string ends
\* with TypeError and sends no HTTP request, so such a client never sends one;
\* the constructor raises TypeError for a transport flag that is not a bool
\* and for a client-identification string that is not a str, so the flag of
\* every client is a bool and its client-identification string a str.
C12_CredentialsChecked ==
  /\ (Done /\ (self._email.t # "str" \/ self._apikey.t # "str")) =>
       /\ call.exc = "TypeError"
       /\ call.sent = 0
       /\ nsent = 0
  /\ self.constructed => (self._usessl.t = "bool" /\ self._userag.t = "str")
  /\ pc = "failed" =>
       /\ ~self.constructed
       /\ call.op = "__init__"
       /\ call.exc = "TypeError"
       /\ (call.args.ssl.t # "bool" \/ call.args.uag.t # "str")
  /\ (pc = "idle" /\ ncalls = 0) => self.constructed

\* C12's case: the second call on a client whose API key is the integer 42, an
\* integration_search with one well-typed argument, ends as the first did.
C12_Witness ==
  /\ Done
  /\ ncalls = 2
  /\ nsent = 0
  /\ self._email.t = "str"
  /\ self._apikey = PyInt(42)
  /\ call.op = "integration_search"
  /\ call.args["md5"] = PyStr(<<"a">>)
  /\ call.args["sha256"] = PyNone
  /\ call.args["searchurl"] = PyNone
  /\ call.exc = "TypeError"
  /\ call.sent = 0

(* ------------------------------------------------------------------------ *)
\* The header template __init__ builds from the arguments the caller gave it.
Template ==
  ("Accept" :> <<"application/vnd.ve.v1.0+json">>) @@
  ("VE-API-Version" :> <<"1.0.0">>) @@
  ("user-agent" :> passed.uag.v) @@
  ("Authorization" :>
     <<"Token token=">> \o format(passed.email) \o <<":">> \o format(passed.apikey))

\* The call the caller would make next with the operation and arguments of
\* the call that has just ended.
SameCallAgain ==
  CASE call.op = "reports"            -> reports(self, call.args, NoResponse)
    [] call.op = "processed_reports"  -> processed_reports(self, call.args, NoResponse)
    [] call.op = "inbox_reports"      -> inbox_reports(self, call.args, NoResponse)
    [] call.op = "attachment"         -> attachment(self, call.args, NoResponse)
    [] call.op = "integration_search" -> integration_search(self, call.args, NoResponse)
    [] call.op = "clusters"           -> clusters(self, call.args, NoResponse)

\* C13: after its public calls, returned or raised, the client holds the
\* host, credentials, transport flag and client-identification string the
\* constructor was given and the header template the constructor built from
\* them (Accept, VE-API-Version, user-agent, Authorization), which never has a
\* Content-Type; the request of a call carries the template and the
\* Content-Type of that call alone (application/json, or the mime_type of an
\* attachment call); and the same call made again on the client builds the
\* same URL and headers.
C13_ClientUnchanged ==
  self.constructed =>
    /\ self._triagehost = passed.host
    /\ self._email = passed.email
    /\ self._apikey = passed.apikey
    /\ self._usessl = passed.ssl
    /\ self._userag = passed.uag
    /\ self._headers = Template
    /\ "Content-Type" \notin DOMAIN self._headers
    /\ Sent =>
         LET again == SameCallAgain IN
         /\ DOMAIN call.headers = DOMAIN Template \cup {"Content-Type"}
         /\ \A h \in DOMAIN Template : call.headers[h] = Template[h]
         /\ call.headers["Content-Type"] =
              IF call.op = "attachment" THEN call.args["mime_type"].v
              ELSE <<"application/json">>
         /\ again.method = call.method
         /\ again.url = call.url
         /\ again.headers = call.headers

\* C13's case: the second request of a client is an attachment request with the
\* mime_type 'a', which the server fails; the request has the Content-Type a,
\* and the template of the client has its four entries and no Content-Type.
C13_Witness ==
  /\ Sent
  /\ ncalls = 2
  /\ nsent = 2
  /\ call.op = "attachment"
  /\ call.status = 500
  /\ call.headers["Content-Type"] = <<"a">>
  /\ DOMAIN self._headers = {"Accept", "VE-API-Version", "user-agent", "Authorization"}
  /\ self._headers["Authorization"] = <<"Token token=", "u@x", ":", "k">>

====
